---- MODULE Spec2Model ----
(***************************************************************************)
(* kdf-init: the kernel command line parser (cmdline.rs), the virtiofs     *)
(* mount orchestrator (virtiofs.rs) and the boot sequence (main.rs).       *)
(*                                                                         *)
(* A Rust String is a sequence of one-character strings.  The kernel's     *)
(* directory tree is a set of nodes, a node being the sequence of          *)
(* component names that leads to it from the root (<<>> is the root).      *)
(***************************************************************************)
EXTENDS Integers, Sequences, FiniteSets, TLC

VARIABLES
    cmdline,    \* parse_cmdline: the argument, a string
    params,     \* parse_cmdline: the tokens the loop has not visited yet
    config,     \* parse_cmdline: the local Config being filled
    parsed,     \* parse_cmdline: the returned Result, or Pending
    mounts,     \* mount_virtiofs_shares: the argument, a sequence of VirtiofsMount
    mpc,        \* mount_virtiofs_shares: the position in the function
    idx,        \* mount_virtiofs_shares: index of vfs_mount in mounts
    todo,       \* mkdir_p: dirs_to_create, already reversed
    ovk,        \* mount_virtiofs_shares: index into the overlay directory array
    mres,       \* mount_virtiofs_shares: the returned Result, or "none"
    nchecks,    \* how many times /proc/filesystems was read
    fstypes,    \* what the last read of /proc/filesystems gave
    dirs,       \* kernel: the directories that exist
    mtab,       \* kernel: the mounts made, in order
    calls,      \* kernel: every mkdir and mount received, in order, with its outcome
    pc,         \* main: the position in the function
    kidx,       \* mount_kernel_filesystems: index into KERNEL_MOUNTS
    exit        \* main: the process result, or "none"

vars == <<cmdline, params, config, parsed, mounts, mpc, idx, todo, ovk, mres,
          nchecks, fstypes, dirs, mtab, calls, pc, kidx, exit>>

parseVars == <<cmdline, params, config, parsed>>
mountVars == <<mounts, mpc, idx, todo, ovk, mres, nchecks, fstypes>>
kernelVars == <<dirs, mtab, calls>>
mainVars == <<pc, kidx, exit>>

-----------------------------------------------------------------------------
(* Bounds of the model *)

\* longest payload of a single-token command line
MaxPayloadLen == 4
\* most tokens on a command line built from CatalogTokens
MaxTokens == 3
\* most entries of the slice given to mount_virtiofs_shares
MaxSpecs == 2

-----------------------------------------------------------------------------
(* Strings *)

RECURSIVE Concat(_)
Concat(ss) == IF ss = <<>> THEN <<>> ELSE Head(ss) \o Concat(Tail(ss))

\* all strings over alphabet of length at most n
RECURSIVE Strings(_, _)
Strings(alphabet, n) ==
    IF n = 0 THEN {<<>>}
    ELSE LET shorter == Strings(alphabet, n - 1)
         IN shorter \cup {Append(s, c) : s \in shorter, c \in alphabet}

None == [some |-> FALSE]
Some(v) == [some |-> TRUE, val |-> v]

\* what std::fs::read_to_string("/proc/filesystems") gave
Unread == [state |-> "unread"]
Unreadable == [state |-> "unreadable"]
ReadText(text) == [state |-> "read", text |-> text]

\* char::is_whitespace, for the characters the model uses
Whitespace == {" ", "\t", "\n"}

\* str::strip_prefix
strip_prefix(s, prefix) ==
    IF Len(s) >= Len(prefix) /\ SubSeq(s, 1, Len(prefix)) = prefix
    THEN Some(SubSeq(s, Len(prefix) + 1, Len(s)))
    ELSE None

\* str::split(c): the fields between the occurrences of c; one more field
\* than there are occurrences, empty fields included
RECURSIVE SplitFrom(_, _, _, _, _)
SplitFrom(s, c, i, cur, acc) ==
    IF i > Len(s) THEN Append(acc, cur)
    ELSE IF s[i] = c THEN SplitFrom(s, c, i + 1, <<>>, Append(acc, cur))
    ELSE SplitFrom(s, c, i + 1, Append(cur, s[i]), acc)

split(s, c) == SplitFrom(s, c, 1, <<>>, <<>>)

\* str::contains(pat)
contains(s, pat) ==
    \E i \in 1..(Len(s) - Len(pat) + 1) : SubSeq(s, i, i + Len(pat) - 1) = pat

\* str::split_once(c): the text before and after the first c, None without one
split_once(s, c) ==
    IF \E i \in 1..Len(s) : s[i] = c
    THEN LET i == CHOOSE k \in 1..Len(s) :
                      s[k] = c /\ \A j \in 1..(k - 1) : s[j] # c
         IN Some(<<SubSeq(s, 1, i - 1), SubSeq(s, i + 1, Len(s))>>)
    ELSE None

\* str::split_whitespace: the maximal runs of non-whitespace characters
RECURSIVE SplitWsFrom(_, _, _, _)
SplitWsFrom(s, i, cur, acc) ==
    IF i > Len(s) THEN (IF cur = <<>> THEN acc ELSE Append(acc, cur))
    ELSE IF s[i] \in Whitespace
         THEN SplitWsFrom(s, i + 1, <<>>, IF cur = <<>> THEN acc ELSE Append(acc, cur))
    ELSE SplitWsFrom(s, i + 1, Append(cur, s[i]), acc)

split_whitespace(s) == SplitWsFrom(s, 1, <<>>, <<>>)

\* str::trim
RECURSIVE trim_start(_)
trim_start(s) ==
    IF s # <<>> /\ Head(s) \in Whitespace THEN trim_start(Tail(s)) ELSE s

RECURSIVE trim_end(_)
trim_end(s) ==
    IF s # <<>> /\ s[Len(s)] \in Whitespace
    THEN trim_end(SubSeq(s, 1, Len(s) - 1)) ELSE s

trim(s) == trim_end(trim_start(s))

-----------------------------------------------------------------------------
(* cmdline.rs *)

PrefixVirtiofs == <<"i","n","i","t",".","v","i","r","t","i","o","f","s","=">>
PrefixSymlinks == <<"i","n","i","t",".","s","y","m","l","i","n","k","s","=">>
PrefixEnv == <<"i","n","i","t",".","e","n","v",".">>
PrefixCmd == <<"i","n","i","t",".","c","m","d","=">>

\* Config::default()
DefaultConfig ==
    [virtiofs_mounts |-> <<>>, symlinks |-> <<>>, env_vars |-> <<>>, command |-> None]

Ok(v) == [ok |-> TRUE, val |-> v]
Err(e) == [ok |-> FALSE, error |-> e]
Pending == [pending |-> TRUE]
\* parse_cmdline has not been called
NotCalled == [called |-> FALSE]

\* VirtiofsItem with a slice pattern [tag, path, overlay, ..] that lets
\* further fields through
VirtiofsItemLenient(mount_spec) ==
    LET parts == split(mount_spec, ":")
    IN CASE Len(parts) = 2 ->
              Ok([tag |-> parts[1], path |-> parts[2], with_overlay |-> FALSE])
         [] Len(parts) >= 3 ->
              Ok([tag |-> parts[1], path |-> parts[2],
                  with_overlay |-> (parts[3] = <<"Y">>)])
         [] OTHER -> Err(<<"Invalid virtiofs mount spec", mount_spec>>)

\* VirtiofsItem with the flag tested by starts_with("Y") instead of == "Y"
VirtiofsItemFlagPrefix(mount_spec) ==
    LET parts == split(mount_spec, ":")
    IN CASE Len(parts) = 2 ->
              Ok([tag |-> parts[1], path |-> parts[2], with_overlay |-> FALSE])
         [] Len(parts) = 3 ->
              Ok([tag |-> parts[1], path |-> parts[2],
                  with_overlay |-> (parts[3] # <<>> /\ parts[3][1] = "Y")])
         [] OTHER -> Err(<<"Invalid virtiofs mount spec", mount_spec>>)

\* the match on parts.as_slice() of one non-empty list item
VirtiofsItem(mount_spec) ==
    LET parts == split(mount_spec, ":")
    IN CASE Len(parts) = 2 ->
              Ok([tag |-> parts[1], path |-> parts[2], with_overlay |-> FALSE])
         [] Len(parts) = 3 ->
              Ok([tag |-> parts[1], path |-> parts[2],
                  with_overlay |-> (parts[3] = <<"Y">>)])
         [] OTHER -> Err(<<"Invalid virtiofs mount spec", mount_spec>>)

RECURSIVE VirtiofsLoop(_, _)
VirtiofsLoop(items, acc) ==
    IF items = <<>> THEN Ok(acc)
    ELSE IF Head(items) = <<>> THEN VirtiofsLoop(Tail(items), acc)
    ELSE LET r == VirtiofsItem(Head(items))
         IN IF r.ok THEN VirtiofsLoop(Tail(items), Append(acc, r.val)) ELSE r

parse_virtiofs_mounts(value) == VirtiofsLoop(split(value, ","), <<>>)

\* SymlinkItem that cuts at the last ':' (rsplit_once)
SymlinkItemLastColon(symlink_spec) ==
    IF \E i \in 1..Len(symlink_spec) : symlink_spec[i] = ":"
    THEN LET i == CHOOSE k \in 1..Len(symlink_spec) :
                      /\ symlink_spec[k] = ":"
                      /\ \A j \in (k + 1)..Len(symlink_spec) : symlink_spec[j] # ":"
         IN Ok([source |-> SubSeq(symlink_spec, 1, i - 1),
                target |-> SubSeq(symlink_spec, i + 1, Len(symlink_spec))])
    ELSE Err(<<"Invalid symlink spec", symlink_spec>>)

SymlinkItem(symlink_spec) ==
    LET r == split_once(symlink_spec, ":")
    IN IF r.some THEN Ok([source |-> r.val[1], target |-> r.val[2]])
       ELSE Err(<<"Invalid symlink spec", symlink_spec>>)

RECURSIVE SymlinkLoop(_, _)
SymlinkLoop(items, acc) ==
    IF items = <<>> THEN Ok(acc)
    ELSE IF Head(items) = <<>> THEN SymlinkLoop(Tail(items), acc)
    ELSE LET r == SymlinkItem(Head(items))
         IN IF r.ok THEN SymlinkLoop(Tail(items), Append(acc, r.val)) ELSE r

parse_symlinks(value) == SymlinkLoop(split(value, ","), <<>>)

\* HashMap::insert; a HashMap is a function from its keys to their values
MapInsert(m, k, v) ==
    [x \in (DOMAIN m) \cup {k} |-> IF x = k THEN v ELSE m[x]]

\* SetVirtiofs that extends the list instead of replacing it
SetVirtiofsMerge(cfg, list) ==
    [cfg EXCEPT !.virtiofs_mounts = cfg.virtiofs_mounts \o list]

\* SetEnv that keeps the value a key already has (entry().or_insert)
SetEnvKeepFirst(cfg, key, value) ==
    [cfg EXCEPT !.env_vars = IF key \in DOMAIN @ THEN @ ELSE MapInsert(@, key, value)]

\* the assignments of the four branches of the loop in parse_cmdline
SetVirtiofs(cfg, list) == [cfg EXCEPT !.virtiofs_mounts = list]
SetSymlinks(cfg, list) == [cfg EXCEPT !.symlinks = list]
SetEnv(cfg, key, value) == [cfg EXCEPT !.env_vars = MapInsert(cfg.env_vars, key, value)]
SetCommand(cfg, value) == [cfg EXCEPT !.command = Some(value)]

\* which branch of the if / else-if chain a token takes
Classify(param) ==
    IF strip_prefix(param, PrefixVirtiofs).some THEN "virtiofs"
    ELSE IF strip_prefix(param, PrefixSymlinks).some THEN "symlinks"
    ELSE IF strip_prefix(param, PrefixEnv).some THEN "env"
    ELSE IF strip_prefix(param, PrefixCmd).some THEN "cmd"
    ELSE "other"

\* what the ? operator lets through: the value of an Ok, the return of an Err
Returned(r) == Err(r.error)

\* entry of parse_cmdline(s)
EnterParse(s) ==
    /\ cmdline' = s
    /\ params' = split_whitespace(s)
    /\ config' = DefaultConfig
    /\ parsed' = Pending

Parsing == parsed = Pending /\ params # <<>>

\* ParseVirtiofs that lets a malformed token pass when a later token of the
\* prefix will replace its list
ParseVirtiofsDeferred ==
    /\ Parsing
    /\ Classify(Head(params)) = "virtiofs"
    /\ LET r == parse_virtiofs_mounts(strip_prefix(Head(params), PrefixVirtiofs).val)
           later == \E n \in 2..Len(params) : Classify(params[n]) = "virtiofs"
       IN IF r.ok \/ later
          THEN /\ config' = IF r.ok THEN SetVirtiofs(config, r.val) ELSE config
               /\ params' = Tail(params)
               /\ UNCHANGED parsed
          ELSE /\ parsed' = Returned(r)
               /\ UNCHANGED <<config, params>>
    /\ UNCHANGED cmdline
    /\ UNCHANGED <<mountVars, kernelVars, mainVars>>

ParseVirtiofs ==
    /\ Parsing
    /\ Classify(Head(params)) = "virtiofs"
    /\ LET r == parse_virtiofs_mounts(strip_prefix(Head(params), PrefixVirtiofs).val)
       IN IF r.ok
          THEN /\ config' = SetVirtiofs(config, r.val)
               /\ params' = Tail(params)
               /\ UNCHANGED parsed
          ELSE /\ parsed' = Returned(r)
               /\ UNCHANGED <<config, params>>
    /\ UNCHANGED cmdline
    /\ UNCHANGED <<mountVars, kernelVars, mainVars>>

ParseSymlinks ==
    /\ Parsing
    /\ Classify(Head(params)) = "symlinks"
    /\ LET r == parse_symlinks(strip_prefix(Head(params), PrefixSymlinks).val)
       IN IF r.ok
          THEN /\ config' = SetSymlinks(config, r.val)
               /\ params' = Tail(params)
               /\ UNCHANGED parsed
          ELSE /\ parsed' = Returned(r)
               /\ UNCHANGED <<config, params>>
    /\ UNCHANGED cmdline
    /\ UNCHANGED <<mountVars, kernelVars, mainVars>>

ParseEnv ==
    /\ Parsing
    /\ Classify(Head(params)) = "env"
    /\ LET kv == split_once(strip_prefix(Head(params), PrefixEnv).val, "=")
       IN config' = IF kv.some THEN SetEnv(config, kv.val[1], kv.val[2]) ELSE config
    /\ params' = Tail(params)
    /\ UNCHANGED <<cmdline, parsed>>
    /\ UNCHANGED <<mountVars, kernelVars, mainVars>>

\* ParseCmd that takes init.cmd= as the last parameter and leaves the loop
ParseCmdStops ==
    /\ Parsing
    /\ Classify(Head(params)) = "cmd"
    /\ config' = SetCommand(config, strip_prefix(Head(params), PrefixCmd).val)
    /\ params' = <<>>
    /\ UNCHANGED <<cmdline, parsed>>
    /\ UNCHANGED <<mountVars, kernelVars, mainVars>>

ParseCmd ==
    /\ Parsing
    /\ Classify(Head(params)) = "cmd"
    /\ config' = SetCommand(config, strip_prefix(Head(params), PrefixCmd).val)
    /\ params' = Tail(params)
    /\ UNCHANGED <<cmdline, parsed>>
    /\ UNCHANGED <<mountVars, kernelVars, mainVars>>

\* ParseOther of a strict parser: an unknown parameter is an error
ParseOtherFails ==
    /\ Parsing
    /\ Classify(Head(params)) = "other"
    /\ parsed' = Err(<<"Unknown parameter", Head(params)>>)
    /\ UNCHANGED <<cmdline, config, params>>
    /\ UNCHANGED <<mountVars, kernelVars, mainVars>>

ParseOther ==
    /\ Parsing
    /\ Classify(Head(params)) = "other"
    /\ params' = Tail(params)
    /\ UNCHANGED <<cmdline, config, parsed>>
    /\ UNCHANGED <<mountVars, kernelVars, mainVars>>

ParseReturn ==
    /\ parsed = Pending
    /\ params = <<>>
    /\ parsed' = Ok(config)
    /\ UNCHANGED <<cmdline, params, config>>
    /\ UNCHANGED <<mountVars, kernelVars, mainVars>>

\* the loop of parse_cmdline over the tokens toks, from configuration cfg
RECURSIVE ParseLoop(_, _)
ParseLoop(toks, cfg) ==
    IF toks = <<>> THEN Ok(cfg)
    ELSE LET param == Head(toks)
             kind == Classify(param)
         IN CASE kind = "virtiofs" ->
                   LET r == parse_virtiofs_mounts(strip_prefix(param, PrefixVirtiofs).val)
                   IN IF r.ok THEN ParseLoop(Tail(toks), SetVirtiofs(cfg, r.val))
                      ELSE Returned(r)
              [] kind = "symlinks" ->
                   LET r == parse_symlinks(strip_prefix(param, PrefixSymlinks).val)
                   IN IF r.ok THEN ParseLoop(Tail(toks), SetSymlinks(cfg, r.val))
                      ELSE Returned(r)
              [] kind = "env" ->
                   LET kv == split_once(strip_prefix(param, PrefixEnv).val, "=")
                   IN ParseLoop(Tail(toks),
                                IF kv.some THEN SetEnv(cfg, kv.val[1], kv.val[2]) ELSE cfg)
              [] kind = "cmd" ->
                   ParseLoop(Tail(toks),
                             SetCommand(cfg, strip_prefix(param, PrefixCmd).val))
              [] OTHER -> ParseLoop(Tail(toks), cfg)

\* parse_cmdline as a function of its argument
parse_cmdline(s) == ParseLoop(split_whitespace(s), DefaultConfig)

-----------------------------------------------------------------------------
(* Command lines given to the parser *)

Prefixes == {PrefixVirtiofs, PrefixSymlinks, PrefixEnv, PrefixCmd}

\* the characters of the payloads of single-token command lines
PayloadAlphabet == {"a", "Y", ":", ",", "="}

SingleTokenLines ==
    {prefix \o payload : prefix \in Prefixes,
                         payload \in Strings(PayloadAlphabet, MaxPayloadLen)}

\* tokens of the command lines of several tokens
CatalogTokens ==
    { PrefixVirtiofs \o <<"a", ":", "/", "a">>,
      PrefixVirtiofs \o <<"b", ":", "/", "b", ":", "Y", ",", "a", ":", "/", "a">>,
      PrefixVirtiofs \o <<"a">>,
      PrefixSymlinks \o <<"a", ":", "b">>,
      PrefixSymlinks \o <<"b", ":", "a", ":", "c">>,
      PrefixSymlinks \o <<"a">>,
      PrefixEnv \o <<"A", "=", "1">>,
      PrefixEnv \o <<"A", "=", "2">>,
      PrefixEnv \o <<"B", "=", "1">>,
      PrefixEnv \o <<"A">>,
      PrefixCmd \o <<"/", "a">>,
      PrefixCmd \o <<"/", "b">>,
      <<"q", "u", "i", "e", "t">> }

TokenLists == UNION {[1..n -> CatalogTokens] : n \in 0..MaxTokens}

\* the tokens, each followed by sep, after lead
JoinTokens(tokens, lead, sep) ==
    lead \o Concat([i \in 1..Len(tokens) |-> tokens[i] \o sep])

\* every list separated by single spaces; the lists below the longest also
\* with a leading newline and runs of mixed whitespace
MultiTokenLines ==
    {JoinTokens(ts, <<>>, <<" ">>) : ts \in TokenLists}
    \cup {JoinTokens(ts, <<"\n">>, <<" ", "\t">>) :
             ts \in {l \in TokenLists : Len(l) < MaxTokens}}

CmdLines == SingleTokenLines \cup MultiTokenLines

-----------------------------------------------------------------------------
(* parse_cmdline called on any command line *)

InitParse ==
    /\ \E s \in CmdLines :
          /\ cmdline = s
          /\ params = split_whitespace(s)
    /\ config = DefaultConfig
    /\ parsed = Pending
    /\ mounts = <<>> /\ mpc = "idle" /\ idx = 0 /\ todo = <<>> /\ ovk = 0
    /\ mres = "none" /\ nchecks = 0 /\ fstypes = Unread
    /\ dirs = {<<>>} /\ mtab = <<>> /\ calls = <<>>
    /\ pc = "idle" /\ kidx = 0 /\ exit = "none"

NextParse ==
    \/ ParseVirtiofs
    \/ ParseSymlinks
    \/ ParseEnv
    \/ ParseCmd
    \/ ParseOther
    \/ ParseReturn

SpecParse == InitParse /\ [][NextParse]_vars

-----------------------------------------------------------------------------
(* Paths and the kernel's mkdir and mount *)

\* the names between the '/' of a path: what std::path::Path::components
\* and the kernel's path walk both see (the paths of the model hold no "."
\* or ".." component).  The working directory of init is the root, so a
\* relative path names the same node as the absolute one.
Components(s) == SelectSeq(split(s, "/"), LAMBDA c : c # <<>>)

\* Path::new
PathOf(s) == [abs |-> (s # <<>> /\ s[1] = "/"), comps |-> Components(s)]

\* Path::parent: None for the root and for the empty path
parent(p) ==
    IF p.comps = <<>> THEN None
    ELSE Some([p EXCEPT !.comps = SubSeq(p.comps, 1, Len(p.comps) - 1)])

\* Path::display
RECURSIVE JoinComps(_)
JoinComps(cs) ==
    IF cs = <<>> THEN <<>>
    ELSE IF Len(cs) = 1 THEN cs[1]
    ELSE cs[1] \o <<"/">> \o JoinComps(Tail(cs))

PathString(p) == (IF p.abs THEN <<"/">> ELSE <<>>) \o JoinComps(p.comps)

\* Path::exists
Exists(p, existing) == p.comps \in existing

\* mkdir(2) of path s in a tree whose directories are existing: the errno,
\* or "OK".  EACCES stands for every failure the tree does not decide.
MkdirOutcomes(s, existing) ==
    LET node == Components(s)
    IN IF s = <<>> THEN {"ENOENT"}
       ELSE IF node \in existing THEN {"EEXIST"}
       ELSE IF SubSeq(node, 1, Len(node) - 1) \notin existing THEN {"ENOENT"}
       ELSE {"OK", "EACCES"}

\* mount(2) on target s
MountOutcomes(s, existing) ==
    IF s = <<>> \/ Components(s) \notin existing THEN {"ENOENT"}
    ELSE {"OK", "EINVAL"}

MkdirCall(s, res, i) == [op |-> "mkdir", path |-> s, res |-> res, spec |-> i]

MountCall(source, target, fstype, flags, data, res, i) ==
    [op |-> "mount", source |-> source, target |-> target, fstype |-> fstype,
     flags |-> flags, data |-> data, res |-> res, spec |-> i]

MountEntry(c) ==
    [source |-> c.source, target |-> c.target, fstype |-> c.fstype,
     flags |-> c.flags, data |-> c.data]

\* the kernel's state as one value
Kernel == [dirs |-> dirs, mtab |-> mtab, calls |-> calls]

\* the kernel after serving mkdir(s) with outcome res
SysMkdir(k, s, res, i) ==
    [k EXCEPT !.dirs = IF res = "OK" THEN @ \cup {Components(s)} ELSE @,
              !.calls = Append(@, MkdirCall(s, res, i))]

\* the kernel after serving the mount call c
SysMount(k, c) ==
    [k EXCEPT !.mtab = IF c.res = "OK" THEN Append(@, MountEntry(c)) ELSE @,
              !.calls = Append(@, c)]

Commit(k) ==
    /\ dirs' = k.dirs
    /\ mtab' = k.mtab
    /\ calls' = k.calls

-----------------------------------------------------------------------------
(* virtiofs.rs *)

StrVirtiofs == <<"v","i","r","t","i","o","f","s">>
StrOverlay == <<"o","v","e","r","l","a","y">>
StrOverlayRoot == <<"/","r","u","n","/","o","v","e","r","l","a","y","f","s","/">>
StrUpper == <<"/","u","p","p","e","r">>
StrWork == <<"/","w","o","r","k">>
StrLower == <<"/","l","o","w","e","r">>
StrLowerdirEq == <<"l","o","w","e","r","d","i","r","=">>
StrUpperdirEq == <<",","u","p","p","e","r","d","i","r","=">>
StrWorkdirEq == <<",","w","o","r","k","d","i","r","=">>

\* Tolerated that lets only a mkdir that created the directory pass
ToleratedOnlyCreated(res) == res = "OK"

\* the .or_else closure after every mkdir: EEXIST is success
Tolerated(res) == res \in {"OK", "EEXIST"}

\* dirs_to_create of mkdir_p before the reverse: the ancestors of current
\* that do not exist, nearest first, up to but not including "/" or ""
RECURSIVE CollectParents(_, _, _)
CollectParents(current, existing, acc) ==
    LET par == parent(current)
    IN IF ~par.some THEN acc
       ELSE IF par.val.comps = <<>> THEN acc
       ELSE CollectParents(par.val, existing,
                           IF Exists(par.val, existing) THEN acc
                           ELSE Append(acc, par.val))

Reverse(q) == [i \in 1..Len(q) |-> q[Len(q) + 1 - i]]

\* DirsToCreate without the reverse: nearest parent first
DirsToCreateNearestFirst(s, existing) == CollectParents(PathOf(s), existing, <<>>)

DirsToCreate(s, existing) == Reverse(CollectParents(PathOf(s), existing, <<>>))

overlay_base(tag) == StrOverlayRoot \o tag
upper_dir(tag) == overlay_base(tag) \o StrUpper
work_dir(tag) == overlay_base(tag) \o StrWork
lower_dir(tag) == overlay_base(tag) \o StrLower

\* the array the overlay directory loop walks
OverlayDirs(tag) == <<overlay_base(tag), upper_dir(tag), work_dir(tag), lower_dir(tag)>>

\* overlay_opts with the upper and work directories exchanged
overlay_opts_swapped(tag) ==
    StrLowerdirEq \o lower_dir(tag) \o StrUpperdirEq \o work_dir(tag)
        \o StrWorkdirEq \o upper_dir(tag)

overlay_opts(tag) ==
    StrLowerdirEq \o lower_dir(tag) \o StrUpperdirEq \o upper_dir(tag)
        \o StrWorkdirEq \o work_dir(tag)

\* check_virtiofs_support without the else branch: any readable file passes
check_virtiofs_support_no_bail(r) == r.state = "read"

\* check_virtiofs_support on what reading /proc/filesystems gave
check_virtiofs_support(r) == r.state = "read" /\ contains(r.text, StrVirtiofs)

\* MountSucceeded with the Result discarded
MountSucceededAlways(res) == TRUE

\* Result<(), Errno> of rustix::mount::mount
MountSucceeded(res) == res = "OK"

\* OnError with a cleanup that unmounts what the call had mounted
OnErrorUnmountAll(k) == [k EXCEPT !.mtab = <<>>]

\* what the error return leaves of the kernel state k: the ? operator returns
\* at once and no value in scope has a destructor that unmounts or removes
OnError(k) == k

\* Try with the error dropped: the call's Result is not propagated
TryIgnoringError(success, nextpc) == mpc' = nextpc /\ UNCHANGED mres

\* the ? after a call: go on when it succeeded, return the error otherwise
Try(success, nextpc) ==
    IF success
    THEN mpc' = nextpc /\ UNCHANGED mres
    ELSE mpc' = "done" /\ mres' = "err"

\* NextMount with the capability check inside the loop
NextMountRecheck(success) ==
    IF success /\ idx = Len(mounts)
    THEN mpc' = "done" /\ mres' = "ok" /\ UNCHANGED idx
    ELSE Try(success, "start") /\ idx' = IF success THEN idx + 1 ELSE idx

\* the end of one iteration of the for loop, and the Ok(()) after the last
NextMount(success) ==
    IF success /\ idx = Len(mounts)
    THEN mpc' = "done" /\ mres' = "ok" /\ UNCHANGED idx
    ELSE Try(success, "mkdir_p") /\ idx' = IF success THEN idx + 1 ELSE idx

vfs_mount == mounts[idx]

\* lines of /proc/filesystems: an optional "nodev", a tab, the type's name
LineOverlay == <<"n","o","d","e","v","\t">> \o StrOverlay \o <<"\n">>
LineVirtiofs == <<"n","o","d","e","v","\t">> \o StrVirtiofs \o <<"\n">>
LineExt4 == <<"\t","e","x","t","4","\n">>

\* contents of /proc/filesystems the kernel may present
ProcFilesystems ==
    { <<>>,
      LineExt4 \o LineOverlay,
      LineExt4 \o LineVirtiofs,
      LineOverlay \o LineVirtiofs \o LineExt4 }

\* if mounts.is_empty() { return Ok(()) }
MountEmpty ==
    /\ mpc = "start"
    /\ mounts = <<>>
    /\ mpc' = "done"
    /\ mres' = "ok"
    /\ UNCHANGED <<mounts, idx, todo, ovk, nchecks, fstypes, kernelVars>>
    /\ UNCHANGED <<parseVars, mainVars>>

\* check_virtiofs_support()?
CheckSupport ==
    /\ mpc = "start"
    /\ mounts # <<>>
    /\ \E r \in {Unreadable} \cup {ReadText(text) : text \in ProcFilesystems} :
          /\ fstypes' = r
          /\ nchecks' = nchecks + 1
          /\ Try(check_virtiofs_support(r), "mkdir_p")
    /\ idx' = 1
    /\ UNCHANGED <<mounts, todo, ovk, kernelVars>>
    /\ UNCHANGED <<parseVars, mainVars>>

\* mkdir_p: the while loop that collects the missing parents
MkdirPCollect ==
    /\ mpc = "mkdir_p"
    /\ todo' = DirsToCreate(vfs_mount.path, dirs)
    /\ mpc' = "mkdir_p_loop"
    /\ UNCHANGED <<mounts, idx, ovk, mres, nchecks, fstypes, kernelVars>>
    /\ UNCHANGED <<parseVars, mainVars>>

\* mkdir_p: one turn of the for loop over dirs_to_create
MkdirPParent ==
    /\ mpc = "mkdir_p_loop"
    /\ todo # <<>>
    /\ \E res \in MkdirOutcomes(PathString(Head(todo)), dirs) :
          /\ LET k == SysMkdir(Kernel, PathString(Head(todo)), res, idx)
             IN Commit(IF Tolerated(res) THEN k ELSE OnError(k))
          /\ Try(Tolerated(res), "mkdir_p_loop")
          /\ todo' = IF Tolerated(res) THEN Tail(todo) ELSE todo
    /\ UNCHANGED <<mounts, idx, ovk, nchecks, fstypes>>
    /\ UNCHANGED <<parseVars, mainVars>>

\* mkdir_p: the target directory itself, then the branch on with_overlay
MkdirPTarget ==
    /\ mpc = "mkdir_p_loop"
    /\ todo = <<>>
    /\ \E res \in MkdirOutcomes(vfs_mount.path, dirs) :
          /\ LET k == SysMkdir(Kernel, vfs_mount.path, res, idx)
             IN Commit(IF Tolerated(res) THEN k ELSE OnError(k))
          /\ Try(Tolerated(res), IF vfs_mount.with_overlay THEN "overlay_dirs" ELSE "direct")
    /\ ovk' = 1
    /\ UNCHANGED <<mounts, idx, todo, nchecks, fstypes>>
    /\ UNCHANGED <<parseVars, mainVars>>

\* OverlayMkdir that makes the missing ancestors of the directory too
OverlayMkdirAll ==
    /\ mpc = "overlay_dirs"
    /\ LET dir == OverlayDirs(vfs_mount.tag)[ovk]
           node == Components(dir)
           k0 == [Kernel EXCEPT !.dirs = @ \cup {SubSeq(node, 1, n) : n \in 0..(Len(node) - 1)}]
       IN \E res \in MkdirOutcomes(dir, k0.dirs) :
             /\ LET k == SysMkdir(k0, dir, res, idx)
                IN Commit(IF Tolerated(res) THEN k ELSE OnError(k))
             /\ Try(Tolerated(res), IF ovk = 4 THEN "lower" ELSE "overlay_dirs")
             /\ ovk' = IF Tolerated(res) /\ ovk < 4 THEN ovk + 1 ELSE ovk
    /\ UNCHANGED <<mounts, idx, todo, nchecks, fstypes>>
    /\ UNCHANGED <<parseVars, mainVars>>

\* one turn of the loop over the four overlay directories
OverlayMkdir ==
    /\ mpc = "overlay_dirs"
    /\ \E res \in MkdirOutcomes(OverlayDirs(vfs_mount.tag)[ovk], dirs) :
          /\ LET k == SysMkdir(Kernel, OverlayDirs(vfs_mount.tag)[ovk], res, idx)
             IN Commit(IF Tolerated(res) THEN k ELSE OnError(k))
          /\ Try(Tolerated(res), IF ovk = 4 THEN "lower" ELSE "overlay_dirs")
          /\ ovk' = IF Tolerated(res) /\ ovk < 4 THEN ovk + 1 ELSE ovk
    /\ UNCHANGED <<mounts, idx, todo, nchecks, fstypes>>
    /\ UNCHANGED <<parseVars, mainVars>>

\* mount the share read-only as the lower layer
MountLower ==
    /\ mpc = "lower"
    /\ \E res \in MountOutcomes(lower_dir(vfs_mount.tag), dirs) :
          /\ LET k == SysMount(Kernel, MountCall(vfs_mount.tag, lower_dir(vfs_mount.tag),
                                                 StrVirtiofs, "RDONLY", <<>>, res, idx))
             IN Commit(IF MountSucceeded(res) THEN k ELSE OnError(k))
          /\ Try(MountSucceeded(res), "overlay")
    /\ UNCHANGED <<mounts, idx, todo, ovk, nchecks, fstypes>>
    /\ UNCHANGED <<parseVars, mainVars>>

\* mount the overlay over the mount point
MountOverlay ==
    /\ mpc = "overlay"
    /\ \E res \in MountOutcomes(vfs_mount.path, dirs) :
          /\ LET k == SysMount(Kernel, MountCall(StrOverlay, vfs_mount.path, StrOverlay,
                                                 "empty", overlay_opts(vfs_mount.tag), res, idx))
             IN Commit(IF MountSucceeded(res) THEN k ELSE OnError(k))
          /\ NextMount(MountSucceeded(res))
    /\ UNCHANGED <<mounts, todo, ovk, nchecks, fstypes>>
    /\ UNCHANGED <<parseVars, mainVars>>

\* mount the share directly
MountDirect ==
    /\ mpc = "direct"
    /\ \E res \in MountOutcomes(vfs_mount.path, dirs) :
          /\ LET k == SysMount(Kernel, MountCall(vfs_mount.tag, vfs_mount.path, StrVirtiofs,
                                                 "empty", <<>>, res, idx))
             IN Commit(IF MountSucceeded(res) THEN k ELSE OnError(k))
          /\ NextMount(MountSucceeded(res))
    /\ UNCHANGED <<mounts, todo, ovk, nchecks, fstypes>>
    /\ UNCHANGED <<parseVars, mainVars>>

-----------------------------------------------------------------------------
(* mount_virtiofs_shares called on any slice, in any directory tree *)

Tags == { <<"t">>, <<"t", "/", "u", "p", "p", "e", "r">> }
MountPaths == { <<"/", "m", "n", "t">>, <<"/", "a", "/", "b", "/", "c">> }

\* a tag that names no directory below /run/overlayfs
TagSlash == <<"/">>

MountSpecs ==
    [tag : Tags, path : MountPaths, with_overlay : BOOLEAN]
        \cup { [tag |-> TagSlash, path |-> <<"/", "m", "n", "t">>, with_overlay |-> TRUE] }

MountLists == UNION {[1..n -> MountSpecs] : n \in 0..MaxSpecs}

NodeRun == << <<"r","u","n">> >>
NodeOverlayfs == << <<"r","u","n">>, <<"o","v","e","r","l","a","y","f","s">> >>

\* directory trees mount_virtiofs_shares may start in: the bare root; the
\* root with the empty /run the kernel mounts leave; /run with /run/overlayfs;
\* the same with /a and /mnt; the same with the overlay base of tag "t" left
\* by an earlier run
Trees ==
    { { <<>> },
      { <<>>, NodeRun },
      { <<>>, NodeRun, NodeOverlayfs },
      { <<>>, NodeRun, NodeOverlayfs, << <<"a">> >>, << <<"m","n","t">> >> },
      { <<>>, NodeRun, NodeOverlayfs, Append(NodeOverlayfs, <<"t">>), << <<"a">> >> } }

InitMount ==
    /\ mounts \in MountLists
    /\ dirs \in Trees
    /\ mpc = "start" /\ idx = 0 /\ todo = <<>> /\ ovk = 0
    /\ mres = "none" /\ nchecks = 0 /\ fstypes = Unread
    /\ mtab = <<>> /\ calls = <<>>
    /\ cmdline = <<>> /\ params = <<>> /\ config = DefaultConfig /\ parsed = NotCalled
    /\ pc = "idle" /\ kidx = 0 /\ exit = "none"

NextMountShares ==
    \/ MountEmpty
    \/ CheckSupport
    \/ MkdirPCollect
    \/ MkdirPParent
    \/ MkdirPTarget
    \/ OverlayMkdir
    \/ MountLower
    \/ MountOverlay
    \/ MountDirect

SpecMount == InitMount /\ [][NextMountShares]_vars

-----------------------------------------------------------------------------
(* main.rs *)

KERNEL_MOUNTS ==
    << [source |-> <<"p","r","o","c">>, target |-> <<"/","p","r","o","c">>,
        fstype |-> <<"p","r","o","c">>, flags |-> "empty", data |-> <<>>],
       [source |-> <<"s","y","s","f","s">>, target |-> <<"/","s","y","s">>,
        fstype |-> <<"s","y","s","f","s">>, flags |-> "empty", data |-> <<>>],
       [source |-> <<"d","e","v","t","m","p","f","s">>, target |-> <<"/","d","e","v">>,
        fstype |-> <<"d","e","v","t","m","p","f","s">>, flags |-> "empty", data |-> <<>>],
       [source |-> <<"t","m","p","f","s">>, target |-> <<"/","r","u","n">>,
        fstype |-> <<"t","m","p","f","s">>, flags |-> "empty",
        data |-> <<"m","o","d","e","=","0","7","5","5">>] >>

\* the ? in main: go on when the call succeeded, leave main with the error otherwise
MainTry(success, nextpc) ==
    IF success
    THEN pc' = nextpc /\ UNCHANGED exit
    ELSE pc' = "exited" /\ exit' = "err"

\* mount_kernel_filesystems: create the mount point
MainMkdir ==
    /\ pc = "kernel_mkdir"
    /\ \E res \in MkdirOutcomes(KERNEL_MOUNTS[kidx].target, dirs) :
          /\ Commit(SysMkdir(Kernel, KERNEL_MOUNTS[kidx].target, res, 0))
          /\ MainTry(Tolerated(res), "kernel_mount")
    /\ UNCHANGED <<kidx, parseVars, mountVars>>

\* mount_kernel_filesystems: mount the filesystem, then the next entry
MainMount ==
    /\ pc = "kernel_mount"
    /\ LET m == KERNEL_MOUNTS[kidx]
       IN \E res \in MountOutcomes(m.target, dirs) :
             /\ Commit(SysMount(Kernel, MountCall(m.source, m.target, m.fstype, m.flags,
                                                  m.data, res, 0)))
             /\ MainTry(MountSucceeded(res),
                        IF kidx = Len(KERNEL_MOUNTS) THEN "read_cmdline" ELSE "kernel_mkdir")
             /\ kidx' = IF MountSucceeded(res) /\ kidx < Len(KERNEL_MOUNTS) THEN kidx + 1 ELSE kidx
    /\ UNCHANGED <<parseVars, mountVars>>

\* cmdline::read_cmdline()? fails
ReadCmdlineFails ==
    /\ pc = "read_cmdline"
    /\ MainTry(FALSE, "parse")
    /\ UNCHANGED <<kidx, parseVars, mountVars, kernelVars>>

\* cmdline::read_cmdline()? gives the trimmed content of /proc/cmdline, and
\* parse_cmdline is entered with it
ReadCmdline ==
    /\ pc = "read_cmdline"
    /\ \E content \in MultiTokenLines : EnterParse(trim(content))
    /\ MainTry(TRUE, "parse")
    /\ UNCHANGED <<kidx, mountVars, kernelVars>>

\* cmdline::parse_cmdline(&cmdline_str)? has returned; the rest of main
\* prints the configuration and returns Ok(())
MainFinish ==
    /\ pc = "parse"
    /\ parsed # Pending
    /\ IF parsed.ok
       THEN pc' = "exited" /\ exit' = "ok"
       ELSE MainTry(FALSE, "exited")
    /\ UNCHANGED <<kidx, parseVars, mountVars, kernelVars>>

\* directory trees init may start in: the bare root, or an initramfs that
\* ships the mount points
BootTrees ==
    { { <<>> },
      { <<>>, << <<"p","r","o","c">> >>, << <<"s","y","s">> >>,
        << <<"d","e","v">> >>, << <<"r","u","n">> >> } }

Init ==
    /\ pc = "kernel_mkdir" /\ kidx = 1 /\ exit = "none"
    /\ dirs \in BootTrees
    /\ mtab = <<>> /\ calls = <<>>
    /\ cmdline = <<>> /\ params = <<>> /\ config = DefaultConfig /\ parsed = NotCalled
    /\ mounts = <<>> /\ mpc = "idle" /\ idx = 0 /\ todo = <<>> /\ ovk = 0
    /\ mres = "none" /\ nchecks = 0 /\ fstypes = Unread

Next ==
    \/ MainMkdir
    \/ MainMount
    \/ ReadCmdlineFails
    \/ ReadCmdline
    \/ ParseVirtiofs
    \/ ParseSymlinks
    \/ ParseEnv
    \/ ParseCmd
    \/ ParseOther
    \/ ParseReturn
    \/ MainFinish

Spec == Init /\ [][Next]_vars

-----------------------------------------------------------------------------
(* Properties of mount_virtiofs_shares, checked under SpecMount *)

\* a call the kernel refused, 'already exists' of a mkdir aside
Failed(c) ==
    \/ c.op = "mkdir" /\ c.res \notin {"OK", "EEXIST"}
    \/ c.op = "mount" /\ c.res # "OK"

\* the call that ends the work on entry i: a successful mount at its path
Completes(c, i) ==
    /\ c.op = "mount"
    /\ c.spec = i
    /\ c.res = "OK"
    /\ c.target = mounts[i].path

IsOverlayMount(c) == c.op = "mount" /\ c.fstype = StrOverlay

\* C1: a mkdir or mount for the entry at index j is issued only after every
\* call of the entries before j has succeeded and their work is complete, and
\* a failed mkdir (other than 'already exists') or mount is the last call
\* ever issued, with the function returning an error
C1_OrderedFailFast ==
    /\ \A q \in 1..Len(calls) :
          /\ \A p \in 1..(q - 1) :
                /\ ~Failed(calls[p])
                /\ calls[p].spec <= calls[q].spec
          /\ \A i \in 1..(calls[q].spec - 1) :
                \E p \in 1..(q - 1) : Completes(calls[p], i)
    /\ (calls # <<>> /\ Failed(calls[Len(calls)])) => (mpc = "done" /\ mres = "err")

\* the second entry's overlay mount failed after the first entry was mounted
C1_Witness ==
    /\ Len(mounts) = 2
    /\ mres = "err"
    /\ calls # <<>>
    /\ calls[Len(calls)].spec = 2
    /\ IsOverlayMount(calls[Len(calls)])
    /\ Failed(calls[Len(calls)])
    /\ \E p \in 1..Len(calls) : Completes(calls[p], 1)

\* the filesystem list text has a line whose name field is name
Advertises(text, name) ==
    \E i \in 1..Len(text), j \in 1..Len(text) :
        /\ text[i] = "\t"
        /\ text[j] = "\n"
        /\ SubSeq(text, i + 1, j - 1) = name

\* C2: with a non-empty slice and a kernel whose filesystem list lacks
\* virtiofs, the function has returned an error and no mkdir and no mount
\* was issued
C2_CapabilityGate ==
    (mounts # <<>> /\ fstypes.state = "read" /\ ~Advertises(fstypes.text, StrVirtiofs)) =>
        (calls = <<>> /\ mtab = <<>> /\ mpc = "done" /\ mres = "err")

\* two entries, and a filesystem list with ext4 and overlay only
C2_Witness ==
    /\ Len(mounts) = 2
    /\ fstypes = ReadText(LineExt4 \o LineOverlay)
    /\ mres = "err"

\* C3: an overlay mount is issued only at the path of an entry with
\* with_overlay, directly after the successful read-only virtiofs mount of
\* that entry's tag at /run/overlayfs/<tag>/lower; a failed lower mount is
\* the last call and the function returns an error
C3_LowerBeforeOverlay ==
    \A q \in 1..Len(calls) :
        LET c == calls[q]
            m == mounts[c.spec]
            lower == StrOverlayRoot \o m.tag \o StrLower
        IN /\ IsOverlayMount(c) =>
                /\ m.with_overlay
                /\ c.target = m.path
                /\ q > 1
                /\ calls[q - 1] = MountCall(m.tag, lower, StrVirtiofs, "RDONLY",
                                            <<>>, "OK", c.spec)
           /\ (c.op = "mount" /\ c.flags = "RDONLY" /\ c.res # "OK") =>
                /\ q = Len(calls)
                /\ mpc = "done"
                /\ mres = "err"

\* the lower mount of an overlay entry failed
C3_Witness ==
    /\ mres = "err"
    /\ calls # <<>>
    /\ LET c == calls[Len(calls)]
       IN /\ c.op = "mount"
          /\ c.flags = "RDONLY"
          /\ c.res = "EINVAL"
          /\ mounts[c.spec].with_overlay

Range(q) == {q[i] : i \in 1..Len(q)}

\* C4: every mount a successful call made is in the mount table, and every
\* directory a successful mkdir created or found exists, in every state up
\* to and including the one the function returns in
C4_NothingUndone ==
    \A p \in 1..Len(calls) :
        LET c == calls[p]
        IN /\ (c.op = "mount" /\ c.res = "OK") => MountEntry(c) \in Range(mtab)
           /\ (c.op = "mkdir" /\ c.res \in {"OK", "EEXIST"}) =>
                 Components(c.path) \in dirs

\* [A (direct), B (overlay)]: B's overlay mount failed and A's mount is there
C4_Witness ==
    /\ Len(mounts) = 2
    /\ ~mounts[1].with_overlay
    /\ mounts[2].with_overlay
    /\ mres = "err"
    /\ calls # <<>>
    /\ calls[Len(calls)].spec = 2
    /\ calls[Len(calls)].op = "mount"
    /\ [source |-> mounts[1].tag, target |-> mounts[1].path, fstype |-> StrVirtiofs,
        flags |-> "empty", data |-> <<>>] \in Range(mtab)

\* the calls issued for entry i, outcomes left out
CallsFor(i) ==
    LET cs == SelectSeq(calls, LAMBDA c : c.spec = i)
    IN [p \in 1..Len(cs) |-> [cs[p] EXCEPT !.res = "-"]]

IsProperPrefix(a, b) == Len(a) < Len(b) /\ SubSeq(b, 1, Len(a)) = a

\* what follows the mkdir -p of the target of entry m, at index i
ExpectedAfterMkdirP(m, i) ==
    LET base == StrOverlayRoot \o m.tag
        lower == base \o StrLower
        upper == base \o StrUpper
        work == base \o StrWork
    IN IF m.with_overlay
       THEN << MkdirCall(base, "-", i), MkdirCall(upper, "-", i),
               MkdirCall(work, "-", i), MkdirCall(lower, "-", i),
               MountCall(m.tag, lower, StrVirtiofs, "RDONLY", <<>>, "-", i),
               MountCall(StrOverlay, m.path, StrOverlay, "empty",
                         StrLowerdirEq \o lower \o StrUpperdirEq \o upper
                             \o StrWorkdirEq \o work, "-", i) >>
       ELSE << MountCall(m.tag, m.path, StrVirtiofs, "empty", <<>>, "-", i) >>

\* C6: when the function returns success, the calls issued for each entry are
\* mkdirs of ancestors of its path, parents first, ending with the mkdir of
\* the path itself, followed by exactly the one direct mount, or by exactly
\* the four overlay mkdirs, the read-only lower mount and the overlay mount
C6_ExactSyscalls ==
    mres = "ok" =>
        \A i \in 1..Len(mounts) :
            LET cs == CallsFor(i)
                tail == ExpectedAfterMkdirP(mounts[i], i)
                n == Len(cs) - Len(tail)
            IN /\ n >= 1
               /\ SubSeq(cs, n + 1, Len(cs)) = tail
               /\ cs[n] = MkdirCall(mounts[i].path, "-", i)
               /\ \A p \in 1..(n - 1) :
                     /\ cs[p].op = "mkdir"
                     /\ IsProperPrefix(Components(cs[p].path), Components(cs[p + 1].path))

\* success on a slice holding an overlay entry and a direct entry, with a
\* parent directory created on the way
C6_Witness ==
    /\ mres = "ok"
    /\ Len(mounts) = 2
    /\ mounts[1].with_overlay
    /\ ~mounts[2].with_overlay
    /\ Len(CallsFor(2)) = 3

\* C7: an empty slice returns success without reading the filesystem list
\* and without any call; a non-empty slice reads it exactly once, before the
\* first mkdir, however many entries there are
C7_CheckOnceOrNever ==
    /\ mounts = <<>> =>
          /\ nchecks = 0
          /\ calls = <<>>
          /\ mpc = "done" => mres = "ok"
    /\ mounts # <<>> =>
          /\ nchecks <= 1
          /\ mpc # "start" => nchecks = 1
          /\ calls # <<>> => (nchecks = 1 /\ fstypes.state = "read")

\* two entries mounted after one check
C7_Witness ==
    /\ Len(mounts) = 2
    /\ mres = "ok"
    /\ nchecks = 1

\* the empty slice returned
C7_WitnessEmpty ==
    /\ mounts = <<>>
    /\ mres = "ok"

-----------------------------------------------------------------------------
(* Properties of main, checked under Spec *)

\* C5: whenever main has returned success after a parse that gave a
\* non-empty virtiofs_mounts, mount_virtiofs_shares has run on that list
C5_MountsRunBeforeExit ==
    (pc = "exited" /\ exit = "ok" /\ parsed.val.virtiofs_mounts # <<>>) =>
        (mpc = "done" /\ mounts = parsed.val.virtiofs_mounts)

-----------------------------------------------------------------------------
(* Properties of parse_cmdline, checked under SpecParse *)

\* parse_cmdline has returned
HasReturned == "ok" \in DOMAIN parsed
ReturnedOk == HasReturned /\ parsed.ok
ReturnedErr == HasReturned /\ ~parsed.ok

Tokens == split_whitespace(cmdline)

\* the payload of the last of the tokens toks that starts with prefix
LastPayload(toks, prefix) ==
    LET hits == {i \in 1..Len(toks) : strip_prefix(toks[i], prefix).some}
    IN IF hits = {} THEN None
       ELSE LET last == CHOOSE i \in hits : \A j \in hits : j <= i
            IN Some(strip_prefix(toks[last], prefix).val)

\* C8: after a successful parse, virtiofs_mounts and symlinks are the lists
\* parsed from the last init.virtiofs= and the last init.symlinks= token
\* alone, command is the payload of the last init.cmd= token, and each is
\* empty or absent without such a token
C8_LastTokenWins ==
    ReturnedOk =>
        LET toks == Tokens
            v == LastPayload(toks, PrefixVirtiofs)
            l == LastPayload(toks, PrefixSymlinks)
        IN /\ parsed.val.virtiofs_mounts =
                 IF v.some THEN parse_virtiofs_mounts(v.val).val ELSE <<>>
           /\ parsed.val.symlinks =
                 IF l.some THEN parse_symlinks(l.val).val ELSE <<>>
           /\ parsed.val.command = LastPayload(toks, PrefixCmd)

\* two init.virtiofs= tokens with different lists, two init.cmd= tokens
C8_Witness ==
    /\ ReturnedOk
    /\ Tokens = << PrefixVirtiofs \o <<"b", ":", "/", "b", ":", "Y", ",", "a", ":", "/", "a">>,
                   PrefixCmd \o <<"/", "a">>,
                   PrefixVirtiofs \o <<"a", ":", "/", "a">> >>
    /\ Len(parsed.val.virtiofs_mounts) = 1

\* v[i..j] is an item of the comma-separated list v
IsItem(v, i, j) ==
    /\ i <= j
    /\ i = 1 \/ v[i - 1] = ","
    /\ j = Len(v) \/ v[j + 1] = ","
    /\ \A k \in i..j : v[k] # ","

ColonCount(v, i, j) == Cardinality({k \in i..j : v[k] = ":"})

\* list v has a non-empty item whose number of ':' is in counts
HasItemWithColons(v, counts) ==
    \E i \in 1..Len(v) :
        /\ i = 1 \/ v[i - 1] = ","
        /\ \E j \in i..Len(v) : IsItem(v, i, j) /\ ColonCount(v, i, j) \in counts

\* t has prefix p and the rest of t is list v
IsListToken(t, p, v) == t = p \o v

\* a token that the claim says fails the parse
MalformedToken(t) ==
    \/ /\ Len(t) >= Len(PrefixVirtiofs)
       /\ LET v == SubSeq(t, Len(PrefixVirtiofs) + 1, Len(t))
          IN /\ IsListToken(t, PrefixVirtiofs, v)
             /\ HasItemWithColons(v, (0..Len(v)) \ {1, 2})
    \/ /\ Len(t) >= Len(PrefixSymlinks)
       /\ LET v == SubSeq(t, Len(PrefixSymlinks) + 1, Len(t))
          IN /\ IsListToken(t, PrefixSymlinks, v)
             /\ HasItemWithColons(v, {0})

\* C9: the parse fails exactly when an init.virtiofs= token has a non-empty
\* item with other than 2 or 3 ':'-separated fields or an init.symlinks=
\* token has a non-empty item without ':'; empty items never fail it; and a
\* failed parse returns the error alone, with no configuration
C9_MalformedItemsFail ==
    HasReturned =>
        /\ ~parsed.ok <=> LET toks == Tokens
                          IN \E n \in 1..Len(toks) : MalformedToken(toks[n])
        /\ ~parsed.ok => DOMAIN parsed = {"ok", "error"}

\* an empty item skipped, then an item of four fields
C9_Witness ==
    /\ cmdline = PrefixVirtiofs \o <<",", ":", ":", ":">>
    /\ ReturnedErr

\* C10: every VirtiofsMount of a successfully parsed configuration has a
\* non-empty tag and a non-empty path
C10_NonEmptyTagAndPath ==
    ReturnedOk =>
        \A n \in 1..Len(parsed.val.virtiofs_mounts) :
            /\ parsed.val.virtiofs_mounts[n].tag # <<>>
            /\ parsed.val.virtiofs_mounts[n].path # <<>>

\* the items of the comma-separated list v, as pairs of first and last index
ItemRanges(v) ==
    {r \in (1..Len(v)) \X (1..Len(v)) : IsItem(v, r[1], r[2])}

\* the position of item r among the items rs, counted from the left
ItemRank(rs, r) == Cardinality({q \in rs : q[1] <= r[1]})

\* token t starts with prefix p
StartsWith(t, p) == Len(t) >= Len(p) /\ SubSeq(t, 1, Len(p)) = p

\* the list of the only token of the command line that starts with prefix p,
\* None when there is no such token or more than one
OnlyPayload(p) ==
    LET toks == Tokens
        hits == {n \in 1..Len(toks) : StartsWith(toks[n], p)}
    IN IF Cardinality(hits) = 1
       THEN LET t == toks[CHOOSE n \in hits : TRUE]
            IN Some(SubSeq(t, Len(p) + 1, Len(t)))
       ELSE None

\* mount m is what the claim says item text gives: tag and path are the
\* first two ':'-free fields, and with_overlay says that what follows them
\* is exactly ":Y"
MountOfItem(m, text) ==
    /\ ":" \notin Range(m.tag)
    /\ ":" \notin Range(m.path)
    /\ \/ /\ text = m.tag \o <<":">> \o m.path
          /\ ~m.with_overlay
       \/ /\ text = m.tag \o <<":">> \o m.path \o <<":", "Y">>
          /\ m.with_overlay
       \/ /\ \E third \in {SubSeq(text, n, Len(text)) : n \in 1..(Len(text) + 1)} :
                /\ text = m.tag \o <<":">> \o m.path \o <<":">> \o third
                /\ third # <<"Y">>
          /\ ~m.with_overlay

\* C11: the n-th non-empty item of an init.virtiofs= list gives the n-th
\* entry of virtiofs_mounts; its with_overlay is true exactly when the item
\* has three fields and the third is "Y", and false, without error, for a
\* two-field item and for any other third field
C11_OverlayFlagExact ==
    (ReturnedOk /\ OnlyPayload(PrefixVirtiofs).some) =>
        LET v == OnlyPayload(PrefixVirtiofs).val
            rs == ItemRanges(v)
            ms == parsed.val.virtiofs_mounts
        IN /\ Len(ms) = Cardinality(rs)
           /\ \A r \in rs : MountOfItem(ms[ItemRank(rs, r)], SubSeq(v, r[1], r[2]))

\* a list of two items, the second with the flag
C11_Witness ==
    /\ ReturnedOk
    /\ Tokens = << PrefixVirtiofs \o <<"b", ":", "/", "b", ":", "Y", ",", "a", ":", "/", "a">> >>
    /\ parsed.val.virtiofs_mounts[1].with_overlay
    /\ ~parsed.val.virtiofs_mounts[2].with_overlay

\* a third field that only starts with "Y"
C11_WitnessLongFlag ==
    /\ ReturnedOk
    /\ cmdline = PrefixVirtiofs \o <<":", ":", "Y", "Y">>

\* token t is init.env.<name>=<value>, with no '=' in name
IsEnvToken(t, name, value) ==
    /\ t = PrefixEnv \o name \o <<"=">> \o value
    /\ "=" \notin Range(name)

\* the ways to cut token t after the prefix into a name, one '=' and a value
EnvCuts(t) ==
    {c \in {<<SubSeq(t, Len(PrefixEnv) + 1, n - 1), SubSeq(t, n + 1, Len(t))>> :
               n \in (Len(PrefixEnv) + 1)..Len(t)} :
        IsEnvToken(t, c[1], c[2])}

\* C12: after a successful parse env_vars holds exactly the names of the
\* init.env.NAME=VALUE tokens, each with the VALUE (all that follows the
\* first '=') of the last token of that name; an init.env. token without
\* '=' adds nothing, and a command line of init.env. tokens alone parses
C12_EnvLastValue ==
    HasReturned =>
        LET toks == Tokens
            env == {n \in 1..Len(toks) : EnvCuts(toks[n]) # {}}
            cut(n) == CHOOSE c \in EnvCuts(toks[n]) : TRUE
        IN /\ (\A n \in 1..Len(toks) : StartsWith(toks[n], PrefixEnv)) => parsed.ok
           /\ parsed.ok =>
                /\ DOMAIN parsed.val.env_vars = {cut(n)[1] : n \in env}
                /\ \A n \in env :
                      (\A k \in env : k > n => cut(k)[1] # cut(n)[1]) =>
                          parsed.val.env_vars[cut(n)[1]] = cut(n)[2]

\* a name set, then a token of that name without '=', then the name set again
C12_Witness ==
    /\ ReturnedOk
    /\ Tokens = << PrefixEnv \o <<"A", "=", "1">>,
                   PrefixEnv \o <<"A">>,
                   PrefixEnv \o <<"A", "=", "2">> >>
    /\ parsed.val.env_vars[<<"A">>] = <<"2">>

\* a value that holds a further '='
C12_WitnessEqInValue ==
    /\ ReturnedOk
    /\ cmdline = PrefixEnv \o <<"a", "=", "=", "a">>
    /\ parsed.val.env_vars[<<"a">>] = <<"=", "a">>

\* token t starts with one of the four recognized prefixes
Recognized(t) ==
    \/ StartsWith(t, PrefixVirtiofs)
    \/ StartsWith(t, PrefixSymlinks)
    \/ StartsWith(t, PrefixEnv)
    \/ StartsWith(t, PrefixCmd)

\* the command line of the recognized tokens of toks, one space after each
RecognizedLine(toks) ==
    Concat([n \in 1..Len(SelectSeq(toks, Recognized)) |->
               SelectSeq(toks, Recognized)[n] \o <<" ">>])

\* C13: the result of a parse, configuration or error, is the result of
\* parsing the command line with every token of no recognized prefix taken
\* out, and a command line without tokens gives the default configuration
C13_UnrecognizedIgnored ==
    HasReturned =>
        LET toks == Tokens
        IN /\ parsed = parse_cmdline(RecognizedLine(toks))
           /\ toks = <<>> => parsed = Ok(DefaultConfig)

\* an unrecognized token before and after a recognized one
C13_Witness ==
    /\ ReturnedOk
    /\ Tokens = << <<"q", "u", "i", "e", "t">>,
                   PrefixVirtiofs \o <<"a", ":", "/", "a">>,
                   <<"q", "u", "i", "e", "t">> >>
    /\ Len(parsed.val.virtiofs_mounts) = 1

\* the command line of whitespace alone
C13_WitnessEmpty ==
    /\ ReturnedOk
    /\ cmdline = <<"\n">>

\* C14: the n-th non-empty item of an init.symlinks= list gives the n-th
\* entry of symlinks; its source is the text before the item's first ':'
\* and its target all the text after it, further ':' included
C14_SymlinkFirstColon ==
    (ReturnedOk /\ OnlyPayload(PrefixSymlinks).some) =>
        LET v == OnlyPayload(PrefixSymlinks).val
            rs == ItemRanges(v)
            ls == parsed.val.symlinks
        IN /\ Len(ls) = Cardinality(rs)
           /\ \A r \in rs :
                 LET l == ls[ItemRank(rs, r)]
                 IN /\ ":" \notin Range(l.source)
                    /\ SubSeq(v, r[1], r[2]) = l.source \o <<":">> \o l.target

\* a target that holds a ':'
C14_Witness ==
    /\ ReturnedOk
    /\ Tokens = << PrefixSymlinks \o <<"b", ":", "a", ":", "c">> >>
    /\ parsed.val.symlinks = << [source |-> <<"b">>, target |-> <<"a", ":", "c">>] >>

\* a list of two items
C14_WitnessTwoItems ==
    /\ ReturnedOk
    /\ cmdline = PrefixSymlinks \o <<"a", ":", ",", ":">>
    /\ Len(parsed.val.symlinks) = 2

\* the key a token governs: its prefix for the list and command tokens, the
\* name for an init.env.NAME=VALUE token, nothing for any other token
GoverningKeys(t) ==
    IF StartsWith(t, PrefixVirtiofs) THEN {PrefixVirtiofs}
    ELSE IF StartsWith(t, PrefixSymlinks) THEN {PrefixSymlinks}
    ELSE IF StartsWith(t, PrefixCmd) THEN {PrefixCmd}
    ELSE {PrefixEnv \o c[1] : c \in EnvCuts(t)}

\* no two of the tokens toks govern the same key
KeysOccurOnce(toks) ==
    \A n \in 1..Len(toks), k \in 1..Len(toks) :
        n # k => GoverningKeys(toks[n]) \cap GoverningKeys(toks[k]) = {}

TokenOrders(n) ==
    {f \in [1..n -> 1..n] : \A a \in 1..n, b \in 1..n : f[a] = f[b] => a = b}

\* two results are the same configuration, or both an error
SameOutcome(a, b) == a.ok = b.ok /\ (a.ok => a.val = b.val)

\* C15: when no key is governed by two tokens of the command line, parsing
\* any permutation of its tokens gives the same configuration, or an error
\* as well
C15_OrderIndependent ==
    HasReturned =>
        LET toks == Tokens
        IN KeysOccurOnce(toks) =>
              \A f \in TokenOrders(Len(toks)) :
                  SameOutcome(parsed,
                              ParseLoop([n \in 1..Len(toks) |-> toks[f[n]]], DefaultConfig))

\* three tokens of three different keys
C15_Witness ==
    /\ ReturnedOk
    /\ Tokens = << PrefixCmd \o <<"/", "a">>,
                   PrefixEnv \o <<"A", "=", "1">>,
                   PrefixVirtiofs \o <<"a", ":", "/", "a">> >>
    /\ Len(parsed.val.virtiofs_mounts) = 1

\* a malformed token among tokens of different keys
C15_WitnessErr ==
    /\ ReturnedErr
    /\ Tokens = << PrefixCmd \o <<"/", "a">>,
                   PrefixVirtiofs \o <<"a">>,
                   PrefixEnv \o <<"A", "=", "1">> >>

\* text is one of the items of the list of token t, whose prefix is p
IsItemOf(text, t, p) ==
    /\ StartsWith(t, p)
    /\ LET v == SubSeq(t, Len(p) + 1, Len(t))
       IN \E r \in ItemRanges(v) : text = SubSeq(v, r[1], r[2])

\* C20: when some init.virtiofs= or init.symlinks= token is malformed the
\* parse has failed, whatever follows that token; the error names an item
\* of the first malformed token, and that token and all tokens after it are
\* the ones the loop has not gone past
C20_MalformedFailsAnywhere ==
    HasReturned =>
        LET toks == Tokens
            bad == {n \in 1..Len(toks) : MalformedToken(toks[n])}
        IN bad # {} =>
              LET first == CHOOSE n \in bad : \A k \in bad : n <= k
              IN /\ ~parsed.ok
                 /\ params = SubSeq(toks, first, Len(toks))
                 /\ \/ IsItemOf(parsed.error[2], toks[first], PrefixVirtiofs)
                    \/ IsItemOf(parsed.error[2], toks[first], PrefixSymlinks)

\* a malformed init.virtiofs= token followed by a well-formed one
C20_Witness ==
    /\ ReturnedErr
    /\ Tokens = << PrefixCmd \o <<"/", "a">>,
                   PrefixVirtiofs \o <<"a">>,
                   PrefixVirtiofs \o <<"a", ":", "/", "a">> >>
    /\ Len(params) = 2

\* the calls made for the entry at index i, in order, with their results
RawCallsFor(i) == SelectSeq(calls, LAMBDA c : c.spec = i)

\* the entry at index j has the path of an entry before it
RepeatsPath(j) == \E i \in 1..(j - 1) : mounts[i].path = mounts[j].path

\* C16: a mkdir that reports EEXIST never ends the function, any other mkdir
\* failure ends it at once; and mkdir_p of a path an earlier entry already
\* ensured finds no parent to create, makes the one mkdir of the target,
\* which reports EEXIST, and so does not fail
C16_MkdirIdempotent ==
    /\ \A p \in 1..Len(calls) :
          calls[p].op = "mkdir" =>
              IF calls[p].res \in {"OK", "EEXIST"}
              THEN p = Len(calls) => mres # "err"
              ELSE p = Len(calls) /\ mres = "err"
    /\ \A j \in 1..Len(mounts) :
          RepeatsPath(j) =>
              /\ (idx = j /\ mpc = "mkdir_p_loop") => todo = <<>>
              /\ RawCallsFor(j) # <<>> =>
                    RawCallsFor(j)[1] = MkdirCall(mounts[j].path, "EEXIST", j)

\* two entries with one path, both mounted
C16_Witness ==
    /\ mres = "ok"
    /\ Len(mounts) = 2
    /\ mounts[1].path = mounts[2].path
    /\ RawCallsFor(2)[1].res = "EEXIST"

\* an overlay directory left by an earlier run is found and the entry is
\* mounted all the same
C16_WitnessOverlayDir ==
    /\ mres = "ok"
    /\ \E p \in 1..Len(calls) :
          /\ calls[p].op = "mkdir"
          /\ calls[p].res = "EEXIST"
          /\ calls[p].path = overlay_base(<<"t">>)

\* position of the first call in cs whose path is s, or 0
RECURSIVE FirstAt(_, _, _)
FirstAt(cs, s, p) ==
    IF p > Len(cs) THEN 0
    ELSE IF cs[p].path = s THEN p
    ELSE FirstAt(cs, s, p + 1)

\* the calls mkdir_p made for the entry at index i: those up to and including
\* the mkdir of its path
MkdirPCalls(i) ==
    LET cs == RawCallsFor(i)
        at == FirstAt(cs, mounts[i].path, 1)
    IN IF at = 0 THEN cs ELSE SubSeq(cs, 1, at)

IsAncestor(a, b) == IsProperPrefix(Components(a), Components(b))

\* mkdir_p for the entry at index i has returned
MkdirPEnded(i) ==
    \/ idx > i
    \/ idx = i /\ mpc \notin {"start", "mkdir_p", "mkdir_p_loop"} /\ RawCallsFor(i) # <<>>

\* C17: the calls of one mkdir_p are mkdirs of ancestors of the target that
\* did not exist, each an ancestor of the next, then the target; none finds
\* its parent missing; when none is refused for a reason other than EEXIST,
\* mkdir_p returns after a tolerated mkdir of the target, and the target and
\* all its ancestors exist from then on
C17_ParentFirst ==
    \A i \in 1..Len(mounts) :
        LET cs == MkdirPCalls(i)
            target == mounts[i].path
            node == Components(target)
            done == cs # <<>> /\ cs[Len(cs)].path = target
                              /\ cs[Len(cs)].res \in {"OK", "EEXIST"}
        IN /\ \A p \in 1..Len(cs) :
                 /\ cs[p].op = "mkdir"
                 /\ cs[p].res \in {"OK", "EEXIST", "EACCES"}
                 /\ cs[p].path # target =>
                       /\ IsAncestor(cs[p].path, target)
                       /\ cs[p].res # "EEXIST"
                 /\ \A q \in (p + 1)..Len(cs) : IsAncestor(cs[p].path, cs[q].path)
           /\ done => \A n \in 0..Len(node) : SubSeq(node, 1, n) \in dirs
           /\ (MkdirPEnded(i) /\ \A p \in 1..Len(cs) : cs[p].res # "EACCES") => done

\* /a/b/c was made in a tree that had neither /a nor /a/b
C17_Witness ==
    /\ Len(mounts) >= 1
    /\ mounts[1].path = <<"/", "a", "/", "b", "/", "c">>
    /\ MkdirPEnded(1)
    /\ Len(MkdirPCalls(1)) = 3
    /\ \A p \in 1..3 : MkdirPCalls(1)[p].res = "OK"

\* /a/b/c was made in a tree that had /a but not /a/b
C17_WitnessPartial ==
    /\ Len(mounts) >= 1
    /\ mounts[1].path = <<"/", "a", "/", "b", "/", "c">>
    /\ MkdirPEnded(1)
    /\ Len(MkdirPCalls(1)) = 2
    /\ \A p \in 1..2 : MkdirPCalls(1)[p].res = "OK"

\* the directories of its overlay layout that the entry at index i has asked
\* the kernel to create
LayoutDirsOf(i) ==
    {c.path : c \in {d \in Range(RawCallsFor(i)) :
                        d.op = "mkdir" /\ d.path \in Range(OverlayDirs(mounts[i].tag))}}

\* C18: two overlay entries of one list whose tags differ never ask for the
\* same directory as part of their overlay layouts
C18_LayoutsDisjoint ==
    \A i, j \in 1..Len(mounts) :
        (/\ i # j
         /\ mounts[i].with_overlay
         /\ mounts[j].with_overlay
         /\ mounts[i].tag # mounts[j].tag)
            => LayoutDirsOf(i) \cap LayoutDirsOf(j) = {}

\* what the step that asks for the overlay base directory of the current
\* entry does when /run/overlayfs does not exist: the mkdir fails and is the
\* last call, the function returns the error, /run/overlayfs still does not
\* exist, nothing was mounted for the entry, and its target exists
MissingRootStep ==
    /\ mres' = "err"
    /\ mpc' = "done"
    /\ calls' = Append(calls, calls'[Len(calls')])
    /\ calls'[Len(calls')].op = "mkdir"
    /\ calls'[Len(calls')].path = overlay_base(vfs_mount.tag)
    /\ calls'[Len(calls')].res \notin {"OK", "EEXIST"}
    /\ NodeOverlayfs \notin dirs'
    /\ mtab' = mtab
    /\ \A p \in 1..Len(calls') : ~(calls'[p].op = "mount" /\ calls'[p].spec = idx)
    /\ Components(vfs_mount.path) \in dirs'

====
